---- MODULE Spec2Model ----
(***************************************************************************)
(* State-machine model of HonoLanChatServer (src/src/server.ts): the user  *)
(* registry (users), the chat log (chatLog), the persisted chat log        *)
(* (chatlog.txt), the received/ folder and what each WebSocket was sent.   *)
(*                                                                         *)
(* Text is a sequence of tokens: a display name is a sequence of one-      *)
(* character strings, so that `${username} joined the chat` is the name    *)
(* followed by the token " joined the chat".  Wall-clock timestamps of     *)
(* ChatMessage are not part of the state.  nanoid() is a source of fresh   *)
(* ids: connection ids and message ids are drawn from counters.            *)
(***************************************************************************)
EXTENDS Integers, Sequences, FiniteSets, TLC

\* Number of WebSocket connections ever accepted, and number of ChatMessages
\* ever created.
MaxConns == 2
MaxLog == 3

ConnIds == 1..MaxConns

\* Inputs of the handlers: two proper display names, and the names that are
\* empty or only whitespace.
Names == {<<"A">>, <<"B">>}
BlankNames == {<<>>, <<" ">>}
Texts == {<<"hi">>}

VARIABLES
    nconn,       \* connection events so far: the ids 1..nconn are in use
    readyState,  \* ws.readyState of each connection's socket
    users,       \* this.users: Map<string, User>, in insertion order
    chatLog,     \* this.chatLog: ChatMessage[]
    nids,        \* ChatMessage ids drawn from nanoid() so far
    chatlogTxt,  \* the text of chatlog.txt
    files,       \* the received/ folder: filename -> bytes
    outbox,      \* per connection, the frames ws.send() was given, in order
    last,        \* the socket event that happened last, with its input
    joinReqs,    \* history: the join requests handled so far, in order
    fileReqs,    \* history: the file requests that were written, in order
    client       \* one browser page: the fields of its HonoChatClient

vars == <<nconn, readyState, users, chatLog, nids, chatlogTxt, files, outbox,
          last, joinReqs, fileReqs, client>>

----------------------------------------------------------------------------
(* Map<string, User>                                                       *)

MapHas(us, id) == \E i \in 1..Len(us) : us[i].id = id

MapGet(us, id) == us[CHOOSE i \in 1..Len(us) : us[i].id = id]

\* Map.prototype.set: an existing key keeps its place, a new key goes last.
MapSet(us, id, name) ==
    IF MapHas(us, id)
    THEN [i \in 1..Len(us) |->
            IF us[i].id = id THEN [id |-> id, username |-> name] ELSE us[i]]
    ELSE Append(us, [id |-> id, username |-> name])

\* A delete that removes the oldest entry, whatever the key.
MapDeleteFirst(us, id) == IF us = <<>> THEN us ELSE Tail(us)

\* A delete that removes nothing.
MapDeleteNothing(us, id) == us

MapDelete(us, id) == SelectSeq(us, LAMBDA u : u.id # id)

\* Array.from(this.users.values()).map((user) => user.username)
UserNames(us) == [i \in 1..Len(us) |-> us[i].username]

----------------------------------------------------------------------------
(* Buffer.from(text, "base64")                                             *)

B64Alphabet ==
    << "A", "B", "C", "D", "E", "F", "G", "H", "I", "J", "K", "L", "M",
       "N", "O", "P", "Q", "R", "S", "T", "U", "V", "W", "X", "Y", "Z",
       "a", "b", "c", "d", "e", "f", "g", "h", "i", "j", "k", "l", "m",
       "n", "o", "p", "q", "r", "s", "t", "u", "v", "w", "x", "y", "z",
       "0", "1", "2", "3", "4", "5", "6", "7", "8", "9", "+", "/" >>

\* The sextet of a character; 64 for a character outside the alphabet.
Unbase64(ch) ==
    IF \E i \in 1..64 : B64Alphabet[i] = ch
    THEN (CHOOSE i \in 1..64 : B64Alphabet[i] = ch) - 1
    ELSE IF ch = "-" THEN 62 ELSE IF ch = "_" THEN 63 ELSE 64

\* The decoder skips characters outside the alphabet and stops at "=".
RECURSIVE Sextets(_)
Sextets(s) ==
    IF s = <<>> \/ Head(s) = "=" THEN <<>>
    ELSE IF Unbase64(Head(s)) < 64
         THEN <<Unbase64(Head(s))>> \o Sextets(Tail(s))
         ELSE Sextets(Tail(s))

RECURSIVE SextetsToBytes(_)
SextetsToBytes(q) ==
    IF Len(q) < 2 THEN <<>>
    ELSE LET b1 == q[1] * 4 + q[2] \div 16
         IN  IF Len(q) = 2 THEN <<b1>>
             ELSE LET b2 == (q[2] % 16) * 16 + q[3] \div 4
                  IN  IF Len(q) = 3 THEN <<b1, b2>>
                      ELSE <<b1, b2, (q[3] % 4) * 64 + q[4]>>
                           \o SextetsToBytes(SubSeq(q, 5, Len(q)))

BufferFromBase64(s) == SextetsToBytes(Sextets(s))

\* The clients' encoder: buffer.toString("base64")
RECURSIVE Base64Encode(_)
Base64Encode(b) ==
    IF b = <<>> THEN <<>>
    ELSE LET c1 == B64Alphabet[b[1] \div 4 + 1]
         IN  IF Len(b) = 1
             THEN <<c1, B64Alphabet[(b[1] % 4) * 16 + 1], "=", "=">>
             ELSE LET c2 == B64Alphabet[(b[1] % 4) * 16 + b[2] \div 16 + 1]
                  IN  IF Len(b) = 2
                      THEN <<c1, c2, B64Alphabet[(b[2] % 16) * 4 + 1], "=">>
                      ELSE <<c1, c2,
                             B64Alphabet[(b[2] % 16) * 4 + b[3] \div 64 + 1],
                             B64Alphabet[(b[3] % 64) + 1]>>
                           \o Base64Encode(SubSeq(b, 4, Len(b)))

----------------------------------------------------------------------------
(* Inputs of handleFileTransfer                                            *)

\* The content of the files a client shares.
ClientBytes == {<<0, 255, 16, 7>>}

\* File requests: a file as a client encodes it ("AP8QBw=="), and a request
\* whose fileData is not base64 text ("*" is outside the alphabet).
ClientFiles ==
    { [filename |-> "a.txt", fileData |-> Base64Encode(b), fileSize |-> Len(b)]
        : b \in ClientBytes }

FileInputs ==
    ClientFiles
    \cup
    { [filename |-> "a.txt", fileData |-> <<"A", "*", "8", "=">>, fileSize |-> 2048] }

----------------------------------------------------------------------------
(* formatFileSize                                                          *)

Sizes == <<"B", "KB", "MB", "GB">>

RECURSIVE Pow1024(_)
Pow1024(i) == IF i = 0 THEN 1 ELSE 1024 * Pow1024(i - 1)

\* Math.floor(Math.log(bytes) / Math.log(1024)) for bytes >= 1
RECURSIVE Log1024(_)
Log1024(bytes) == IF bytes < 1024 THEN 0 ELSE 1 + Log1024(bytes \div 1024)

\* The number is kept in hundredths (toFixed(2)), followed by the unit.
formatFileSize(bytes) ==
    IF bytes = 0 THEN <<"0 B">>
    ELSE LET i == Log1024(bytes)
         IN  <<(bytes * 200 + Pow1024(i)) \div (2 * Pow1024(i)), Sizes[i + 1]>>

----------------------------------------------------------------------------
(* Fan-out                                                                 *)

\* A send that puts the frame in front of the frames sent before.
SendFront(ob, id, frame) == [ob EXCEPT ![id] = <<frame>> \o @]

Send(ob, id, frame) == [ob EXCEPT ![id] = Append(@, frame)]

\* A fan-out that does not look at readyState.
RECURSIVE FanOutAnyState(_, _, _, _)
FanOutAnyState(us, ob, skip, frame) ==
    IF us = <<>> THEN ob
    ELSE FanOutAnyState(Tail(us),
                        IF Head(us).id \notin skip
                        THEN Send(ob, Head(us).id, frame)
                        ELSE ob,
                        skip, frame)

RECURSIVE FanOut(_, _, _, _)
FanOut(us, ob, skip, frame) ==
    IF us = <<>> THEN ob
    ELSE FanOut(Tail(us),
                IF Head(us).id \notin skip /\ readyState[Head(us).id] = "OPEN"
                THEN Send(ob, Head(us).id, frame)
                ELSE ob,
                skip, frame)

\* A fan-out that stops after the first user.
broadcastFirstOnly(us, ob, frame) ==
    FanOut(IF us = <<>> THEN us ELSE <<Head(us)>>, ob, {}, frame)

broadcast(us, ob, frame) == FanOut(us, ob, {}, frame)

\* A fan-out to the others that excludes nobody.
broadcastToOthersAll(us, ob, excludeUserId, frame) == FanOut(us, ob, {}, frame)

broadcastToOthers(us, ob, excludeUserId, frame) ==
    FanOut(us, ob, {excludeUserId}, frame)

\* A user list read from the registry as it was before the handler ran.
broadcastUserListStale(us, ob) ==
    broadcast(us, ob, [type |-> "user_list", data |-> UserNames(users)])

broadcastUserList(us, ob) ==
    broadcast(us, ob, [type |-> "user_list", data |-> UserNames(us)])

\* A log that takes a new message at the front (unshift for push).
PushLogFront(log, message) == <<message>> \o log

\* chatLog.push(message)
PushLog(log, message) == Append(log, message)

\* `[${...toLocaleString()}] ${msg.username}: ${msg.message}`, without the
\* timestamp
LogLine(msg) == msg.username \o <<": ">> \o msg.message

\* Array.prototype.join("\n")
RECURSIVE JoinLines(_)
JoinLines(lines) ==
    IF lines = <<>> THEN <<>>
    ELSE IF Len(lines) = 1 THEN lines[1]
    ELSE lines[1] \o <<"\n">> \o JoinLines(Tail(lines))

\* saveChatLog: the text written to chatlog.txt, the whole log each time
saveChatLog(log) == JoinLines([i \in 1..Len(log) |-> LogLine(log[i])])

ChatMessage(name, text, kind) ==
    [id |-> nids + 1, username |-> name, message |-> text, type |-> kind]

\* A broadcastMessage that pushes and saves, and sends nothing.
broadcastMessageSilent(us, log, ob, message) ==
    [ log |-> PushLog(log, message),
      ob  |-> ob,
      txt |-> saveChatLog(PushLog(log, message)) ]

\* broadcastMessage: push, fan out, save.  The result is the new chatLog, the
\* new outboxes and the new content of chatlog.txt.
broadcastMessage(us, log, ob, message) ==
    [ log |-> PushLog(log, message),
      ob  |-> broadcast(us, ob, [type |-> "message", data |-> message]),
      txt |-> saveChatLog(PushLog(log, message)) ]

----------------------------------------------------------------------------
(* Initial state: the constructor has run, nobody is connected.            *)

\* new HonoChatClient(): the constructor sets the fields and calls init(),
\* which calls connect(); the login screen is shown, the chat screen hidden.
\* ws is the hub's id of the page's socket, 0 before its onopen; sockets is
\* the history of these ids.
ClientInit ==
    [ ws |-> 0, connecting |-> TRUE, isConnected |-> FALSE, timer |-> FALSE,
      chatScreen |-> FALSE, sockets |-> {} ]

Init ==
    /\ nconn = 0
    /\ readyState = [c \in ConnIds |-> "NONE"]
    /\ users = <<>>
    /\ chatLog = <<>>
    /\ nids = 0
    /\ chatlogTxt = <<>>
    /\ files = [f \in {} |-> <<>>]
    /\ outbox = [c \in ConnIds |-> <<>>]
    /\ last = [op |-> "none", id |-> 0]
    /\ joinReqs = <<>>
    /\ fileReqs = <<>>
    /\ client = ClientInit

\* A connection event that also enters the new id into the registry.
ConnectionRegisters ==
    /\ nconn < MaxConns
    /\ nconn' = nconn + 1
    /\ readyState' = [readyState EXCEPT ![nconn + 1] = "OPEN"]
    /\ users' = MapSet(users, nconn + 1, <<>>)
    /\ last' = [op |-> "connection", id |-> nconn + 1]
    /\ UNCHANGED client
    /\ UNCHANGED <<chatLog, nids, chatlogTxt, files, outbox, joinReqs, fileReqs>>

\* wss.on("connection"): a new socket, open, with a fresh userId.
Connection ==
    /\ nconn < MaxConns
    /\ nconn' = nconn + 1
    /\ readyState' = [readyState EXCEPT ![nconn + 1] = "OPEN"]
    /\ last' = [op |-> "connection", id |-> nconn + 1]
    /\ UNCHANGED client
    /\ UNCHANGED <<users, chatLog, nids, chatlogTxt, files, outbox, joinReqs, fileReqs>>

\* The peer goes away: the socket leaves OPEN before its close event is
\* emitted.
SocketClosing(c) ==
    /\ readyState[c] = "OPEN"
    /\ readyState' = [readyState EXCEPT ![c] = "CLOSING"]
    /\ last' = [op |-> "closing", id |-> c]
    /\ UNCHANGED client
    /\ UNCHANGED <<nconn, users, chatLog, nids, chatlogTxt, files, outbox, joinReqs, fileReqs>>

\* A registry that keeps the joining user only.
JoinRegistrySingle(us, userId, username) ==
    <<[id |-> userId, username |-> username]>>

\* The registry after handleUserJoin's this.users.set(userId, user).
JoinRegistry(us, userId, username) == MapSet(us, userId, username)

\* A welcome frame with the history as it was before the join.
JoinedFrameBefore(log, us) ==
    [type |-> "joined", chatHistory |-> SubSeq(log, 1, Len(log) - 1),
     users |-> UserNames(us)]

\* A welcome frame that lists the joining user only.
JoinedFrameSelf(log, us) ==
    [type |-> "joined", chatHistory |-> log, users |-> <<us[Len(us)].username>>]

\* The frame handleUserJoin sends to the joining socket.
JoinedFrame(log, us) ==
    [type |-> "joined", chatHistory |-> log, users |-> UserNames(us)]

\* A join that publishes the system message before this.users.set.
handleUserJoinSetAfter(userId, username) ==
    /\ readyState[userId] = "OPEN"
    /\ nids < MaxLog
    /\ LET us == JoinRegistry(users, userId, username)
           joinMessage == ChatMessage(<<"System">>,
                                      username \o <<" joined the chat">>,
                                      "system")
           r == broadcastMessage(users, chatLog, outbox, joinMessage)
           ob2 == Send(r.ob, userId, JoinedFrame(r.log, us))
       IN  /\ users' = us
           /\ chatLog' = r.log
           /\ chatlogTxt' = r.txt
           /\ outbox' = broadcastUserList(us, ob2)
    /\ nids' = nids + 1
    /\ last' = [op |-> "join", id |-> userId, username |-> username]
    /\ UNCHANGED client
    /\ joinReqs' = Append(joinReqs, [id |-> userId, username |-> username])
    /\ UNCHANGED <<nconn, readyState, files, fileReqs>>

\* A join that broadcasts the user list before it sends the welcome frame.
handleUserJoinListFirst(userId, username) ==
    /\ readyState[userId] = "OPEN"
    /\ nids < MaxLog
    /\ LET us == JoinRegistry(users, userId, username)
           joinMessage == ChatMessage(<<"System">>,
                                      username \o <<" joined the chat">>,
                                      "system")
           r == broadcastMessage(us, chatLog, outbox, joinMessage)
           ob2 == broadcastUserList(us, r.ob)
       IN  /\ users' = us
           /\ chatLog' = r.log
           /\ chatlogTxt' = r.txt
           /\ outbox' = Send(ob2, userId, JoinedFrame(r.log, us))
    /\ nids' = nids + 1
    /\ last' = [op |-> "join", id |-> userId, username |-> username]
    /\ UNCHANGED client
    /\ joinReqs' = Append(joinReqs, [id |-> userId, username |-> username])
    /\ UNCHANGED <<nconn, readyState, files, fileReqs>>

handleUserJoin(userId, username) ==
    /\ readyState[userId] = "OPEN"
    /\ nids < MaxLog
    /\ LET us == JoinRegistry(users, userId, username)
           joinMessage == ChatMessage(<<"System">>,
                                      username \o <<" joined the chat">>,
                                      "system")
           r == broadcastMessage(us, chatLog, outbox, joinMessage)
           ob2 == Send(r.ob, userId, JoinedFrame(r.log, us))
       IN  /\ users' = us
           /\ chatLog' = r.log
           /\ chatlogTxt' = r.txt
           /\ outbox' = broadcastUserList(us, ob2)
    /\ nids' = nids + 1
    /\ last' = [op |-> "join", id |-> userId, username |-> username]
    /\ UNCHANGED client
    /\ joinReqs' = Append(joinReqs, [id |-> userId, username |-> username])
    /\ UNCHANGED <<nconn, readyState, files, fileReqs>>

\* const user = this.users.get(userId); if (!user) return;
UserKnown(us, userId) == MapHas(us, userId)

handleChatMessage(userId, messageText) ==
    /\ readyState[userId] = "OPEN"
    /\ last' = [op |-> "message", id |-> userId, message |-> messageText]
    /\ UNCHANGED client
    /\ IF ~UserKnown(users, userId)
       THEN UNCHANGED <<users, chatLog, nids, chatlogTxt, outbox>>
       ELSE /\ nids < MaxLog
            /\ LET user == MapGet(users, userId)
                   chatMessage == ChatMessage(user.username, messageText, "message")
                   r == broadcastMessage(users, chatLog, outbox, chatMessage)
               IN  /\ chatLog' = r.log
                   /\ chatlogTxt' = r.txt
                   /\ outbox' = r.ob
            /\ nids' = nids + 1
            /\ UNCHANGED users
    /\ UNCHANGED <<nconn, readyState, files, joinReqs, fileReqs>>

\* fs.writeFileSync(path.join("received", filename), buffer)
\* A write that keeps a file that is already there.
WriteFileOnce(fs, filename, buffer) ==
    [f \in DOMAIN fs \cup {filename} |->
        IF f \in DOMAIN fs THEN fs[f] ELSE buffer]

WriteFile(fs, filename, buffer) ==
    [f \in DOMAIN fs \cup {filename} |-> IF f = filename THEN buffer ELSE fs[f]]

FileReceivedFrame(user, fileData) ==
    [ type |-> "file_received",
      data |-> [ filename |-> fileData.filename,
                 fileData |-> fileData.fileData,
                 sender |-> user.username,
                 fileSize |-> fileData.fileSize,
                 downloadUrl |-> <<"/api/download/", fileData.filename>> ] ]

\* A file transfer that notifies the others before it publishes the "file"
\* ChatMessage.
FileTransferOfUserNotifyFirst(userId, fileData) ==
    /\ nids < MaxLog
    /\ files' = WriteFile(files, fileData.filename,
                          BufferFromBase64(fileData.fileData))
    /\ fileReqs' = Append(fileReqs, fileData)
    /\ LET user == MapGet(users, userId)
           fileMessage ==
               ChatMessage(user.username,
                           <<"Shared file: ", fileData.filename, " (">>
                             \o formatFileSize(fileData.fileSize)
                             \o <<")">>,
                           "file")
           ob1 == broadcastToOthers(users, outbox, userId,
                                    FileReceivedFrame(user, fileData))
           r == broadcastMessage(users, chatLog, ob1, fileMessage)
       IN  /\ chatLog' = r.log
           /\ chatlogTxt' = r.txt
           /\ outbox' = r.ob
    /\ nids' = nids + 1
    /\ UNCHANGED users

\* handleFileTransfer once the user is found: write the file, publish the
\* "file" ChatMessage, notify the others.
FileTransferOfUser(userId, fileData) ==
    /\ nids < MaxLog
    /\ files' = WriteFile(files, fileData.filename,
                          BufferFromBase64(fileData.fileData))
    /\ fileReqs' = Append(fileReqs, fileData)
    /\ LET user == MapGet(users, userId)
           fileMessage ==
               ChatMessage(user.username,
                           <<"Shared file: ", fileData.filename, " (">>
                             \o formatFileSize(fileData.fileSize)
                             \o <<")">>,
                           "file")
           r == broadcastMessage(users, chatLog, outbox, fileMessage)
       IN  /\ chatLog' = r.log
           /\ chatlogTxt' = r.txt
           /\ outbox' = broadcastToOthers(users, r.ob, userId,
                                          FileReceivedFrame(user, fileData))
    /\ nids' = nids + 1
    /\ UNCHANGED users

\* A handleFileTransfer without its "if (!user) return": the file is written
\* before user.username raises the TypeError that ends the handler.
handleFileTransferUnguarded(userId, fileData) ==
    /\ readyState[userId] = "OPEN"
    /\ last' = [op |-> "file", id |-> userId, data |-> fileData]
    /\ UNCHANGED client
    /\ IF ~UserKnown(users, userId)
       THEN /\ files' = WriteFile(files, fileData.filename,
                                  BufferFromBase64(fileData.fileData))
            /\ UNCHANGED <<users, chatLog, nids, chatlogTxt, outbox, fileReqs>>
       ELSE FileTransferOfUser(userId, fileData)
    /\ UNCHANGED <<nconn, readyState, joinReqs>>

handleFileTransfer(userId, fileData) ==
    /\ readyState[userId] = "OPEN"
    /\ last' = [op |-> "file", id |-> userId, data |-> fileData]
    /\ UNCHANGED client
    /\ IF ~UserKnown(users, userId)
       THEN UNCHANGED <<users, chatLog, nids, chatlogTxt, outbox, files, fileReqs>>
       ELSE FileTransferOfUser(userId, fileData)
    /\ UNCHANGED <<nconn, readyState, joinReqs>>

\* A handleUserDisconnect whose broadcastUserList() stands after the
\* "if (user)" block instead of inside it.
DisconnectOfUserListAlways(userId) ==
    IF UserKnown(users, userId)
    THEN /\ nids < MaxLog
         /\ LET user == MapGet(users, userId)
                leaveMessage == ChatMessage(<<"System">>,
                                            user.username \o <<" left the chat">>,
                                            "system")
                r == broadcastMessage(users, chatLog, outbox, leaveMessage)
                us == MapDelete(users, userId)
            IN  /\ chatLog' = r.log
                /\ chatlogTxt' = r.txt
                /\ users' = us
                /\ outbox' = broadcastUserList(us, r.ob)
         /\ nids' = nids + 1
    ELSE /\ outbox' = broadcastUserList(users, outbox)
         /\ UNCHANGED <<users, chatLog, nids, chatlogTxt>>

\* A handleUserDisconnect that deletes the user and broadcasts the user
\* list before it publishes the leave message.
DisconnectOfUserListFirst(userId) ==
    IF UserKnown(users, userId)
    THEN /\ nids < MaxLog
         /\ LET user == MapGet(users, userId)
                leaveMessage == ChatMessage(<<"System">>,
                                            user.username \o <<" left the chat">>,
                                            "system")
                us == MapDelete(users, userId)
                r == broadcastMessage(us, chatLog, broadcastUserList(us, outbox),
                                      leaveMessage)
            IN  /\ chatLog' = r.log
                /\ chatlogTxt' = r.txt
                /\ users' = us
                /\ outbox' = r.ob
         /\ nids' = nids + 1
    ELSE UNCHANGED <<users, chatLog, nids, chatlogTxt, outbox>>

\* The body of handleUserDisconnect.
DisconnectOfUser(userId) ==
    IF UserKnown(users, userId)
    THEN /\ nids < MaxLog
         /\ LET user == MapGet(users, userId)
                leaveMessage == ChatMessage(<<"System">>,
                                            user.username \o <<" left the chat">>,
                                            "system")
                r == broadcastMessage(users, chatLog, outbox, leaveMessage)
                us == MapDelete(users, userId)
            IN  /\ chatLog' = r.log
                /\ chatlogTxt' = r.txt
                /\ users' = us
                /\ outbox' = broadcastUserList(us, r.ob)
         /\ nids' = nids + 1
    ELSE UNCHANGED <<users, chatLog, nids, chatlogTxt, outbox>>

\* ws.on("close"): the socket is closed, then handleUserDisconnect runs.
handleUserDisconnect(userId) ==
    /\ readyState[userId] = "CLOSING"
    /\ readyState' = [readyState EXCEPT ![userId] = "CLOSED"]
    /\ last' = [op |-> "close", id |-> userId]
    /\ UNCHANGED client
    /\ DisconnectOfUser(userId)
    /\ UNCHANGED <<nconn, files, joinReqs, fileReqs>>

\* handleUserDisconnect called once more for a connection whose close event
\* was handled already.
repeatedClose(userId) ==
    /\ readyState[userId] = "CLOSED"
    /\ last' = [op |-> "close again", id |-> userId]
    /\ UNCHANGED client
    /\ DisconnectOfUser(userId)
    /\ UNCHANGED <<nconn, readyState, files, joinReqs, fileReqs>>

\* ws.on("error"): the socket has left OPEN when the event is emitted; the
\* handler writes to the console.
socketError(userId) ==
    /\ readyState[userId] = "OPEN"
    /\ readyState' = [readyState EXCEPT ![userId] = "CLOSING"]
    /\ last' = [op |-> "error", id |-> userId]
    /\ UNCHANGED client
    /\ UNCHANGED <<nconn, users, chatLog, nids, chatlogTxt, files, outbox, joinReqs, fileReqs>>

\* A malformed payload that also ends the connection.
malformedPayloadCloses(userId) ==
    /\ readyState[userId] = "OPEN"
    /\ readyState' = [readyState EXCEPT ![userId] = "CLOSING"]
    /\ last' = [op |-> "malformed", id |-> userId]
    /\ UNCHANGED client
    /\ UNCHANGED <<nconn, users, chatLog, nids, chatlogTxt, files, outbox, joinReqs, fileReqs>>

\* ws.on("message") with a payload JSON.parse rejects: the catch block writes
\* to the console.
malformedPayload(userId) ==
    /\ readyState[userId] = "OPEN"
    /\ last' = [op |-> "malformed", id |-> userId]
    /\ UNCHANGED client
    /\ UNCHANGED <<nconn, readyState, users, chatLog, nids, chatlogTxt, files,
                   outbox, joinReqs, fileReqs>>

----------------------------------------------------------------------------
(* handleFileTransfer, statement by statement.  A handler runs to its end  *)
(* before the next event is taken, so while last.op is one of the          *)
(* positions inside the handler only the handler's next statement follows. *)

InHandler == last.op \in {"file write", "file publish"}

\* const fileMessage: ChatMessage = { ..., type: "file" }
FileMessage(user, fileData) ==
    ChatMessage(user.username,
                <<"Shared file: ", fileData.filename, " (">>
                  \o formatFileSize(fileData.fileSize)
                  \o <<")">>,
                "file")

\* const user = ...; if (!user) return; ... fs.writeFileSync(filePath, buffer)
fileWrite(userId, fileData) ==
    /\ ~InHandler
    /\ readyState[userId] = "OPEN"
    /\ UserKnown(users, userId)
    /\ nids < MaxLog
    /\ files' = WriteFile(files, fileData.filename,
                          BufferFromBase64(fileData.fileData))
    /\ fileReqs' = Append(fileReqs, fileData)
    /\ last' = [op |-> "file write", id |-> userId, data |-> fileData]
    /\ UNCHANGED client
    /\ UNCHANGED <<nconn, readyState, users, chatLog, nids, chatlogTxt, outbox, joinReqs>>

\* this.broadcastMessage(fileMessage)
filePublish ==
    /\ last.op = "file write"
    /\ LET user == MapGet(users, last.id)
           r == broadcastMessage(users, chatLog, outbox, FileMessage(user, last.data))
       IN  /\ chatLog' = r.log
           /\ chatlogTxt' = r.txt
           /\ outbox' = r.ob
    /\ nids' = nids + 1
    /\ last' = [last EXCEPT !.op = "file publish"]
    /\ UNCHANGED client
    /\ UNCHANGED <<nconn, readyState, users, files, joinReqs, fileReqs>>

\* A last statement that takes the file back when nobody was notified.
fileNotifyRollsBack ==
    /\ last.op = "file publish"
    /\ LET user == MapGet(users, last.id)
           ob == broadcastToOthers(users, outbox, last.id,
                                   FileReceivedFrame(user, last.data))
       IN  /\ outbox' = ob
           /\ files' = IF ob = outbox
                       THEN [f \in DOMAIN files \ {last.data.filename} |-> files[f]]
                       ELSE files
    /\ last' = [last EXCEPT !.op = "file notify"]
    /\ UNCHANGED client
    /\ UNCHANGED <<nconn, readyState, users, chatLog, nids, chatlogTxt, joinReqs, fileReqs>>

\* this.broadcastToOthers(userId, { type: "file_received", ... })
fileNotify ==
    /\ last.op = "file publish"
    /\ LET user == MapGet(users, last.id)
       IN  outbox' = broadcastToOthers(users, outbox, last.id,
                                       FileReceivedFrame(user, last.data))
    /\ last' = [last EXCEPT !.op = "file notify"]
    /\ UNCHANGED client
    /\ UNCHANGED <<nconn, readyState, users, chatLog, nids, chatlogTxt, files,
                   joinReqs, fileReqs>>

\* A failed write after which the "file" ChatMessage is published all the
\* same.
fileWriteFailsPublishes(userId, fileData) ==
    /\ ~InHandler
    /\ readyState[userId] = "OPEN"
    /\ UserKnown(users, userId)
    /\ nids < MaxLog
    /\ LET user == MapGet(users, userId)
           r == broadcastMessage(users, chatLog, outbox, FileMessage(user, fileData))
       IN  /\ chatLog' = r.log
           /\ chatlogTxt' = r.txt
           /\ outbox' = r.ob
    /\ nids' = nids + 1
    /\ last' = [op |-> "file write failed", id |-> userId, data |-> fileData]
    /\ UNCHANGED client
    /\ UNCHANGED <<nconn, readyState, users, files, joinReqs, fileReqs>>

\* fs.writeFileSync throws (no received/ folder, a filename that is no path
\* into it, a full disk): the handler ends there, and the catch block of
\* ws.on("message") writes to the console.
fileWriteFails(userId, fileData) ==
    /\ ~InHandler
    /\ readyState[userId] = "OPEN"
    /\ UserKnown(users, userId)
    /\ last' = [op |-> "file write failed", id |-> userId, data |-> fileData]
    /\ UNCHANGED client
    /\ UNCHANGED <<nconn, readyState, users, chatLog, nids, chatlogTxt, files,
                   outbox, joinReqs, fileReqs>>

\* {"type":"file"} without data: an unjoined sender returns at "if (!user)",
\* for a joined one fileData.filename raises a TypeError before anything is
\* written, caught by ws.on("message").
fileNoData(userId) ==
    /\ ~InHandler
    /\ readyState[userId] = "OPEN"
    /\ last' = [op |-> "file no data", id |-> userId]
    /\ UNCHANGED client
    /\ UNCHANGED <<nconn, readyState, users, chatLog, nids, chatlogTxt, files,
                   outbox, joinReqs, fileReqs>>

\* An unknown type that also ends the connection.
unknownTypeCloses(userId) ==
    /\ ~InHandler
    /\ readyState[userId] = "OPEN"
    /\ readyState' = [readyState EXCEPT ![userId] = "CLOSING"]
    /\ last' = [op |-> "unknown type", id |-> userId]
    /\ UNCHANGED client
    /\ UNCHANGED <<nconn, users, chatLog, nids, chatlogTxt, files, outbox, joinReqs, fileReqs>>

\* handleWebSocketMessage, default: the type is none of join, message, file;
\* the hub writes to the console.
unknownType(userId) ==
    /\ ~InHandler
    /\ readyState[userId] = "OPEN"
    /\ last' = [op |-> "unknown type", id |-> userId]
    /\ UNCHANGED client
    /\ UNCHANGED <<nconn, readyState, users, chatLog, nids, chatlogTxt, files,
                   outbox, joinReqs, fileReqs>>

----------------------------------------------------------------------------
(* The browser page (HonoChatClient).  What the page sends is handled by   *)
(* the hub in the same step; what happens in the page alone leaves the     *)
(* hub as it is.                                                           *)

\* String.prototype.trim on a name: leading and trailing blanks removed.
RECURSIVE TrimLeft(_)
TrimLeft(n) == IF n # <<>> /\ Head(n) = " " THEN TrimLeft(Tail(n)) ELSE n

RECURSIVE TrimRight(_)
TrimRight(n) ==
    IF n # <<>> /\ n[Len(n)] = " " THEN TrimRight(SubSeq(n, 1, Len(n) - 1)) ELSE n

Trim(n) == TrimRight(TrimLeft(n))

hubVars == <<nconn, readyState, users, chatLog, nids, chatlogTxt, files, outbox,
             joinReqs, fileReqs>>

\* ws.onopen of the socket connect() made: the hub has just had the
\* connection event of this socket.
browserOnOpen(c) ==
    /\ client.connecting
    /\ last.op = "connection"
    /\ last.id = c
    /\ client' = [client EXCEPT !.ws = c, !.connecting = FALSE,
                                !.isConnected = TRUE, !.sockets = @ \cup {c}]
    /\ last' = [op |-> "browser open", id |-> c]
    /\ UNCHANGED hubVars

\* ws.onmessage with a "joined" frame: showChatScreen() hides the login
\* screen.
browserOnJoined ==
    /\ client.isConnected
    /\ ~client.chatScreen
    /\ \E i \in 1..Len(outbox[client.ws]) : outbox[client.ws][i].type = "joined"
    /\ client' = [client EXCEPT !.chatScreen = TRUE]
    /\ last' = [op |-> "browser joined", id |-> client.ws]
    /\ UNCHANGED hubVars

\* ws.onclose: the page has lost its socket (the hub may not know yet) and
\* sets the timer for connect().
browserOnClose ==
    /\ client.isConnected
    /\ client' = [client EXCEPT !.isConnected = FALSE, !.timer = TRUE]
    /\ last' = [op |-> "browser close", id |-> client.ws]
    /\ UNCHANGED hubVars

\* The timer fires: connect() makes a new WebSocket, and nothing else.
browserConnect ==
    /\ client.timer
    /\ client' = [client EXCEPT !.timer = FALSE, !.connecting = TRUE]
    /\ last' = [op |-> "browser connect", id |-> client.ws]
    /\ UNCHANGED hubVars

\* joinChat(), from the login screen: a name that is not empty when trimmed,
\* and isConnected.
browserJoinChat(username) ==
    /\ ~client.chatScreen
    /\ client.isConnected
    /\ Trim(username) # <<>>
    /\ handleUserJoin(client.ws, Trim(username))

\* sendMessage(), from the chat screen; send() needs an open socket.
browserSendMessage(messageText) ==
    /\ client.chatScreen
    /\ client.isConnected
    /\ handleChatMessage(client.ws, messageText)

\* sendFile(), from the chat screen; send() needs an open socket.
browserSendFile(fileData) ==
    /\ client.chatScreen
    /\ client.isConnected
    /\ handleFileTransfer(client.ws, fileData)

\* A connection that is not one of the page's sockets.
IsPeer(c) == c \notin client.sockets

Next ==
    \/ Connection
    \/ \E c \in ConnIds : SocketClosing(c)
    \/ \E c \in ConnIds, n \in Names : handleUserJoin(c, n)
    \/ \E c \in ConnIds, t \in Texts : handleChatMessage(c, t)
    \/ \E c \in ConnIds, d \in FileInputs : handleFileTransfer(c, d)
    \/ \E c \in ConnIds : handleUserDisconnect(c)

Spec == Init /\ [][Next]_vars

\* The hub with every socket event: errors, repeated close events and
\* payloads that do not parse.
NextEvents ==
    \/ Connection
    \/ \E c \in ConnIds : SocketClosing(c)
    \/ \E c \in ConnIds : socketError(c)
    \/ \E c \in ConnIds : malformedPayload(c)
    \/ \E c \in ConnIds, n \in Names : handleUserJoin(c, n)
    \/ \E c \in ConnIds, t \in Texts : handleChatMessage(c, t)
    \/ \E c \in ConnIds, d \in ClientFiles : handleFileTransfer(c, d)
    \/ \E c \in ConnIds : handleUserDisconnect(c)
    \/ \E c \in ConnIds : repeatedClose(c)

SpecEvents == Init /\ [][NextEvents]_vars

\* The hub with join requests of every kind of name.
NextNames ==
    \/ Connection
    \/ \E c \in ConnIds : SocketClosing(c)
    \/ \E c \in ConnIds, n \in Names \cup BlankNames : handleUserJoin(c, n)
    \/ \E c \in ConnIds, t \in Texts : handleChatMessage(c, t)
    \/ \E c \in ConnIds : handleUserDisconnect(c)

SpecNames == Init /\ [][NextNames]_vars

\* The hub with more data: a chat text of two lines, and a second file name.
DataNames == {<<"A">>}
DataTexts == Texts \cup {<<"two", "\n", "lines">>}
DataFiles ==
    FileInputs
    \cup { [filename |-> "b.txt", fileData |-> Base64Encode(b), fileSize |-> Len(b)]
             : b \in ClientBytes }

NextData ==
    \/ Connection
    \/ \E c \in ConnIds : SocketClosing(c)
    \/ \E c \in ConnIds, n \in DataNames : handleUserJoin(c, n)
    \/ \E c \in ConnIds, t \in DataTexts : handleChatMessage(c, t)
    \/ \E c \in ConnIds, d \in DataFiles : handleFileTransfer(c, d)
    \/ \E c \in ConnIds : handleUserDisconnect(c)

SpecData == Init /\ [][NextData]_vars

\* The events of Next with handleFileTransfer taken statement by statement,
\* and the requests that end in the catch block or in the default case.
NextSteps ==
    \/ ~InHandler /\ Connection
    \/ \E c \in ConnIds : ~InHandler /\ SocketClosing(c)
    \/ \E c \in ConnIds, n \in Names : ~InHandler /\ handleUserJoin(c, n)
    \/ \E c \in ConnIds, t \in Texts : ~InHandler /\ handleChatMessage(c, t)
    \/ \E c \in ConnIds, d \in ClientFiles :
          ~InHandler /\ ~UserKnown(users, c) /\ handleFileTransfer(c, d)
    \/ \E c \in ConnIds, d \in ClientFiles : fileWrite(c, d)
    \/ filePublish
    \/ fileNotify
    \/ \E c \in ConnIds, d \in ClientFiles : fileWriteFails(c, d)
    \/ \E c \in ConnIds : fileNoData(c)
    \/ \E c \in ConnIds : unknownType(c)
    \/ \E c \in ConnIds : ~InHandler /\ handleUserDisconnect(c)

SpecSteps == Init /\ [][NextSteps]_vars

\* What the page's usernameInput may hold when Join is clicked.
UsernameInputs == BlankNames \cup {<<"B">>, <<" ", "B">>}

\* The hub with one browser page and with peers that join and talk.
NextClient ==
    \/ Connection
    \/ \E c \in ConnIds : browserOnOpen(c)
    \/ browserOnJoined
    \/ browserOnClose
    \/ browserConnect
    \/ \E n \in UsernameInputs : browserJoinChat(n)
    \/ \E t \in Texts : browserSendMessage(t)
    \/ \E d \in ClientFiles : browserSendFile(d)
    \/ \E c \in ConnIds, n \in DataNames : IsPeer(c) /\ handleUserJoin(c, n)
    \/ \E c \in ConnIds, t \in Texts : IsPeer(c) /\ handleChatMessage(c, t)
    \/ \E c \in ConnIds : SocketClosing(c)
    \/ \E c \in ConnIds : handleUserDisconnect(c)

SpecClient == Init /\ [][NextClient]_vars


----------------------------------------------------------------------------
(* Vocabulary of the properties                                            *)

IsJoined(c) == MapHas(users, c)

IsPrefix(s, t) == Len(s) <= Len(t) /\ SubSeq(t, 1, Len(s)) = s

\* The frames a step sent to connection c.
NewFrames(c) == SubSeq(outbox'[c], Len(outbox[c]) + 1, Len(outbox'[c]))

MessageFrame(m) == [type |-> "message", data |-> m]

\* The state of the hub without the history variables.
hubState == <<users, chatLog, nids, chatlogTxt, files, outbox>>

----------------------------------------------------------------------------
\* C1: a join request whose name is empty or only whitespace appends no
\* ChatEvent, sends nothing to anybody and leaves the registry as it was (the
\* connection stays unjoined).  handleUserJoin does not look at the name, so
\* this is violated.
C1_BlankJoinIgnored ==
    [][ (last'.op = "join" /\ Trim(last'.username) = <<>>)
          => (chatLog' = chatLog /\ outbox' = outbox /\ users' = users) ]_vars

\* C2: a message or file request on a connection that has not joined changes
\* nothing: no ChatEvent, no file, no frame sent, registry unchanged - at every
\* step, hence however often it is repeated.
C2_UnjoinedIsNoOp ==
    [][ (last'.op \in {"message", "file"} /\ ~IsJoined(last'.id))
          => UNCHANGED hubState ]_vars

\* A file request has just been handled on an open, unjoined connection while
\* somebody else is in the chat.
C2_Witness ==
    /\ last.op = "file"
    /\ ~IsJoined(last.id)
    /\ readyState[last.id] = "OPEN"
    /\ users # <<>>
    /\ chatLog # <<>>

\* C3: the log is append-only and ordered: it holds one event per ChatMessage
\* created, in creation order (ids are drawn in order), and every step leaves
\* the old log as a prefix of the new one.
C3_LogAppendOnly ==
    /\ [](/\ Len(chatLog) = nids
          /\ \A i \in 1..Len(chatLog) : chatLog[i].id = i)
    /\ [][IsPrefix(chatLog, chatLog')]_vars

\* The log holds a join, a chat message and a leave or file event.
C3_Witness ==
    /\ Len(chatLog) >= 3
    /\ chatLog[1].type = "system"
    /\ \E i \in 2..Len(chatLog) : chatLog[i].type = "message"
    /\ \E i \in 2..Len(chatLog) : chatLog[i].type = "file"

Range(f) == {f[i] : i \in DOMAIN f}

FramesOfType(frames, t) == SelectSeq(frames, LAMBDA f : f.type = t)

\* C4: after joins on distinct connections with pairwise distinct non-empty
\* names and no disconnect, list() holds exactly the requested names, each
\* once.
C4_ListIsTheJoinedNames ==
    ( /\ \A c \in ConnIds : readyState[c] # "CLOSED"
      /\ \A i \in 1..Len(joinReqs) : joinReqs[i].username # <<>>
      /\ \A i, j \in 1..Len(joinReqs) :
            i # j => /\ joinReqs[i].id # joinReqs[j].id
                     /\ joinReqs[i].username # joinReqs[j].username )
    => /\ Len(UserNames(users)) = Len(joinReqs)
       /\ Range(UserNames(users)) = {joinReqs[i].username : i \in 1..Len(joinReqs)}

\* Two connections have joined under different names and nobody has left.
C4_Witness ==
    /\ Len(joinReqs) = 2
    /\ joinReqs[1].id # joinReqs[2].id
    /\ joinReqs[1].username # joinReqs[2].username
    /\ \A c \in ConnIds : readyState[c] # "CLOSED"
    /\ Len(users) = 2

\* C5: a chat message of a joined participant S appends exactly one ChatEvent
\* {username: S's name, message: the text, type: "message"}, and the frame
\* carrying it is sent to every joined participant whose socket is open, S
\* included.
C5_MessageIsBroadcast ==
    [][ (last'.op = "message" /\ IsJoined(last'.id))
          => /\ Len(chatLog') = Len(chatLog) + 1
             /\ IsPrefix(chatLog, chatLog')
             /\ LET e == chatLog'[Len(chatLog')]
                IN  /\ e.username = MapGet(users, last'.id).username
                    /\ e.message = last'.message
                    /\ e.type = "message"
                    /\ NewFrames(last'.id) = <<MessageFrame(e)>>
                    /\ \A c \in ConnIds :
                          (IsJoined(c) /\ readyState[c] = "OPEN")
                             => NewFrames(c) = <<MessageFrame(e)>> ]_vars

\* S has just sent "hi" while another participant is joined and open: both
\* have the event as their newest frame.
C5_Witness ==
    /\ last.op = "message"
    /\ IsJoined(last.id)
    /\ \E c \in ConnIds :
          /\ c # last.id
          /\ IsJoined(c)
          /\ readyState[c] = "OPEN"
          /\ outbox[c][Len(outbox[c])] = MessageFrame(chatLog[Len(chatLog)])
    /\ outbox[last.id][Len(outbox[last.id])] = MessageFrame(chatLog[Len(chatLog)])
    /\ chatLog[Len(chatLog)].type = "message"

\* C6: the close of a joined participant appends exactly one system ChatEvent
\* "<name> left the chat" with its display name, and removes its entry from
\* the registry, so list() has one entry less and none for this connection.
C6_DisconnectLeaves ==
    [][ (last'.op = "close" /\ IsJoined(last'.id))
          => /\ Len(chatLog') = Len(chatLog) + 1
             /\ IsPrefix(chatLog, chatLog')
             /\ LET e == chatLog'[Len(chatLog')]
                IN  /\ e.username = <<"System">>
                    /\ e.type = "system"
                    /\ e.message = MapGet(users, last'.id).username
                                     \o <<" left the chat">>
             /\ ~MapHas(users', last'.id)
             /\ Len(UserNames(users')) = Len(UserNames(users)) - 1
             /\ \A c \in ConnIds \ {last'.id} : MapHas(users', c) <=> MapHas(users, c) ]_vars

\* "A" has just gone while somebody else stays.
C6_Witness ==
    /\ last.op = "close"
    /\ chatLog # <<>>
    /\ chatLog[Len(chatLog)].message = <<"A", " left the chat">>
    /\ ~IsJoined(last.id)
    /\ users # <<>>

\* C7: a file transfer of a joined participant S leaves under the given
\* filename the bytes decoded from the payload (for a payload a client encoded,
\* the client's bytes); every other joined participant with an open socket gets
\* exactly one file_received frame, naming the file; S gets none.
C7_FileStoredAndRelayed ==
    [][ (last'.op = "file" /\ IsJoined(last'.id))
          => LET d == last'.data
             IN  /\ d.filename \in DOMAIN files'
                 /\ files'[d.filename] = BufferFromBase64(d.fileData)
                 /\ \A b \in ClientBytes :
                       d.fileData = Base64Encode(b) => files'[d.filename] = b
                 /\ \A f \in DOMAIN files \ {d.filename} :
                       f \in DOMAIN files' /\ files'[f] = files[f]
                 /\ FramesOfType(NewFrames(last'.id), "file_received") = <<>>
                 /\ \A c \in ConnIds \ {last'.id} :
                       LET got == FramesOfType(NewFrames(c), "file_received")
                       IN  IF IsJoined(c) /\ readyState[c] = "OPEN"
                           THEN /\ Len(got) = 1
                                /\ got[1].data.filename = d.filename
                           ELSE got = <<>> ]_vars

\* S has just shared a client's file; it is stored byte for byte and the
\* other participant's newest frame is the notification.
C7_Witness ==
    /\ last.op = "file"
    /\ IsJoined(last.id)
    /\ "a.txt" \in DOMAIN files
    /\ files["a.txt"] \in ClientBytes
    /\ \E c \in ConnIds \ {last.id} :
          /\ IsJoined(c)
          /\ outbox[c][Len(outbox[c])].type = "file_received"
    /\ outbox[last.id][Len(outbox[last.id])].type = "message"

\* C8: a join sends exactly one joined frame, to the joining connection only;
\* its user list holds the name of every other participant in the registry
\* and the joiner's own, its chat history is the whole log at that moment.
C8_JoinedSnapshot ==
    [][ last'.op = "join"
          => LET mine == FramesOfType(NewFrames(last'.id), "joined")
             IN  /\ Len(mine) = 1
                 /\ mine[1].chatHistory = chatLog'
                 /\ last'.username \in Range(mine[1].users)
                 /\ \A i \in 1..Len(users) :
                       users[i].id # last'.id
                          => users[i].username \in Range(mine[1].users)
                 /\ \A c \in ConnIds \ {last'.id} :
                       FramesOfType(NewFrames(c), "joined") = <<>> ]_vars

\* The second participant has just joined: its snapshot names the first one
\* and carries both join events.
C8_Witness ==
    /\ last.op = "join"
    /\ Len(users) = 2
    /\ users[2].id = last.id
    /\ users[1].username # users[2].username
    /\ \E k \in 1..Len(outbox[last.id]) :
          LET f == outbox[last.id][k]
          IN  /\ f.type = "joined"
              /\ users[1].username \in Range(f.users)
              /\ f.chatHistory = chatLog
              /\ Len(chatLog) >= 2
    /\ FramesOfType(outbox[users[1].id], "joined") # <<>>

\* C9: the display name is set once: no step changes the name stored for a
\* connection that stays in the registry, and a join on a joined connection
\* appends no further "joined the chat" event.  handleUserJoin overwrites the
\* entry and publishes again, so this is violated.
C9_NameSetOnce ==
    [][ /\ \A c \in ConnIds :
              (MapHas(users, c) /\ MapHas(users', c))
                 => MapGet(users', c).username = MapGet(users, c).username
        /\ (last'.op = "join" /\ IsJoined(last'.id)) => chatLog' = chatLog ]_vars

\* Base64 text: a multiple of four characters of the alphabet, the last one or
\* two of which may be "=".
IsBase64Text(s) ==
    /\ Len(s) % 4 = 0
    /\ \A i \in 1..Len(s) :
          \/ \E k \in 1..64 : B64Alphabet[k] = s[i]
          \/ s[i] = "=" /\ i >= Len(s) - 1 /\ s[Len(s)] = "="

\* C10: a file request of a joined participant whose content is not valid
\* base64 is rejected: no file written, no ChatEvent, nothing sent.
\* Buffer.from(text, "base64") never fails on a string, so this is violated.
C10_InvalidFileRejected ==
    [][ (last'.op = "file" /\ IsJoined(last'.id)
           /\ ~IsBase64Text(last'.data.fileData))
          => UNCHANGED <<files, chatLog, outbox>> ]_vars

----------------------------------------------------------------------------
\* C11: a close is silent for a connection that is not joined: the close of a
\* connection that never joined, and a second close event for a connection,
\* append no ChatEvent, send no user list (nor anything else) and leave the
\* registry unchanged.
C11_CloseOfUnjoinedIsSilent ==
    [][ /\ (last'.op = "close" /\ ~IsJoined(last'.id)) => UNCHANGED hubState
        /\ last'.op = "close again" => UNCHANGED hubState ]_vars

\* The close event of a participant that had joined and left has just come a
\* second time, while another participant is in the chat with an open socket.
C11_Witness ==
    /\ last.op = "close again"
    /\ \E i \in 1..Len(chatLog) :
          chatLog[i].message \in {n \o <<" left the chat">> : n \in Names}
    /\ \E c \in ConnIds : IsJoined(c) /\ readyState[c] = "OPEN"

\* C12 as claimed: a connection is in the registry from its connection event
\* on, and every publish sends the event to every connection whose socket is
\* open, joined or not.  The registry entry is made by the join, so this is
\* violated.
C12_EveryOpenConnectionIsServed ==
    [][ /\ last'.op = "connection" => MapHas(users', last'.id)
        /\ Len(chatLog') > Len(chatLog)
             => \A c \in ConnIds :
                   readyState[c] = "OPEN"
                      => \E i \in DOMAIN NewFrames(c) :
                            NewFrames(c)[i] = MessageFrame(chatLog'[Len(chatLog')]) ]_vars

\* C12, amended: the registry entry of a connection is made by its join, not
\* by its connection event; every publish sends the event to every connection
\* of the registry whose socket is open, and nothing to a connection that is
\* not in the registry or whose socket is not open.
C12_JoinedOpenConnectionsAreServed ==
    [][ /\ last'.op = "connection" => ~MapHas(users', last'.id)
        /\ last'.op = "join" => MapHas(users', last'.id)
        /\ Len(chatLog') > Len(chatLog)
             => \A c \in ConnIds :
                   IF (MapHas(users, c) \/ MapHas(users', c)) /\ readyState[c] = "OPEN"
                   THEN \E i \in DOMAIN NewFrames(c) :
                           NewFrames(c)[i] = MessageFrame(chatLog'[Len(chatLog')])
                   ELSE NewFrames(c) = <<>> ]_vars

\* A chat message has been published while one connection was joined and
\* another one connected, open and not joined: the latter was sent nothing.
C12_Witness ==
    /\ last.op = "message"
    /\ IsJoined(last.id)
    /\ outbox[last.id][Len(outbox[last.id])] = MessageFrame(chatLog[Len(chatLog)])
    /\ \E d \in ConnIds :
          /\ readyState[d] = "OPEN"
          /\ ~IsJoined(d)
          /\ outbox[d] = <<>>

\* The place of a ChatMessage in the log.
LogIndex(m) == CHOOSE k \in 1..Len(chatLog) : chatLog[k] = m

\* C13: every connection is sent the published events in the order of the
\* log: of two events it was sent, the one that is earlier in the log was
\* sent first.
C13_CommonOrder ==
    \A c \in ConnIds :
       LET fs == FramesOfType(outbox[c], "message")
       IN  \A i \in 1..Len(fs) :
              /\ \E k \in 1..Len(chatLog) : chatLog[k] = fs[i].data
              /\ \A j \in (i + 1)..Len(fs) :
                    LogIndex(fs[i].data) < LogIndex(fs[j].data)

\* Two connections have been sent the same two events.
C13_Witness ==
    \E c, d \in ConnIds :
       /\ c # d
       /\ \E i, j \in 1..Len(chatLog) :
             /\ i < j
             /\ \A x \in {c, d} :
                   {MessageFrame(chatLog[i]), MessageFrame(chatLog[j])}
                      \subseteq Range(outbox[x])

\* C14 as claimed: after a close event and after an error event of a
\* connection, the connection is not in the registry.  The error handler only
\* writes to the console, so this is violated.
C14_RemovedOnCloseAndOnError ==
    [][ last'.op \in {"close", "error"} => ~MapHas(users', last'.id) ]_vars

\* C14, amended: after the close event of a connection the connection is not
\* in the registry; an error event alone leaves the registry (and the log) as
\* they were, with the socket no longer open - the participant is removed by
\* the close event that follows the error.
C14_RemovedOnClose ==
    [][ /\ last'.op = "close" => ~MapHas(users', last'.id)
        /\ last'.op = "error"
             => /\ UNCHANGED hubState
                /\ readyState'[last'.id] = "CLOSING" ]_vars

\* The socket of a joined participant has just had an error: the participant
\* is still in the registry.
C14_Witness ==
    /\ last.op = "error"
    /\ IsJoined(last.id)
    /\ readyState[last.id] = "CLOSING"

\* C15: a payload that does not parse changes neither registry nor log, sends
\* nothing, and leaves every socket, the sender's included, in its state; the
\* hub is in the state it was in, so whatever comes next is handled as it
\* would have been.
C15_MalformedIsDropped ==
    [][ last'.op = "malformed"
          => /\ UNCHANGED hubState
             /\ readyState' = readyState
             /\ readyState'[last'.id] = "OPEN" ]_vars

\* A joined participant has just sent a payload that does not parse, while
\* another connection is open.
C15_Witness ==
    /\ last.op = "malformed"
    /\ IsJoined(last.id)
    /\ \E c \in ConnIds \ {last.id} : readyState[c] = "OPEN"

IsNewline(t) == ToString(t) = ToString("\n")

\* The lines of a text: the pieces between its newlines.
RECURSIVE SplitLines(_)
SplitLines(txt) ==
    IF \A i \in 1..Len(txt) : ~IsNewline(txt[i])
    THEN <<txt>>
    ELSE LET k == CHOOSE i \in 1..Len(txt) :
                     IsNewline(txt[i]) /\ \A j \in 1..(i - 1) : ~IsNewline(txt[j])
         IN  <<SubSeq(txt, 1, k - 1)>> \o SplitLines(SubSeq(txt, k + 1, Len(txt)))

\* C17: once something was published, chatlog.txt has exactly one line per
\* event of the log, in the order of the log, and line i carries the author
\* and the text of event i.  A text with a newline in it takes more than one
\* line, so this is violated.
C17_OneLinePerEvent ==
    IF chatLog = <<>>
    THEN chatlogTxt = <<>>
    ELSE SplitLines(chatlogTxt) = [i \in 1..Len(chatLog) |-> LogLine(chatLog[i])]

\* The last user_list frame sent to a connection.
LastUserList(frames) ==
    LET ul == FramesOfType(frames, "user_list") IN ul[Len(ul)]

\* C18: every join, and every disconnect of a joined participant, ends with
\* a user_list frame that holds the names of the registry as the handler
\* leaves it, sent to every open socket of the registry; so the last
\* user_list a joined participant with an open socket was sent is the current
\* list of names.
C18_UserListIsCurrent ==
    /\ [](\A c \in ConnIds :
             (IsJoined(c) /\ readyState[c] = "OPEN")
                => /\ FramesOfType(outbox[c], "user_list") # <<>>
                   /\ LastUserList(outbox[c]).data = UserNames(users))
    /\ [][ (last'.op = "join" \/ (last'.op = "close" /\ IsJoined(last'.id)))
             => \A c \in ConnIds :
                   (MapHas(users', c) /\ readyState'[c] = "OPEN")
                      => /\ NewFrames(c) # <<>>
                         /\ NewFrames(c)[Len(NewFrames(c))] =
                               [type |-> "user_list", data |-> UserNames(users')] ]_vars

\* A joined participant has left while another one stays, and the one who
\* stays has been sent user lists of two lengths.
C18_Witness ==
    /\ last.op = "close"
    /\ \E c \in ConnIds :
          /\ IsJoined(c)
          /\ readyState[c] = "OPEN"
          /\ \E i \in 1..Len(outbox[c]) :
                /\ outbox[c][i].type = "user_list"
                /\ Len(outbox[c][i].data) = 2
          /\ Len(LastUserList(outbox[c]).data) = 1

\* The last accepted transfer with the given filename.
LastTransfer(f) ==
    LET I == {i \in 1..Len(fileReqs) : fileReqs[i].filename = f}
    IN  fileReqs[CHOOSE i \in I : \A j \in I : j <= i]

C20_JoinOrder ==
    [][ last'.op = "join"
          => LET e == chatLog'[Len(chatLog')]
                 userList == [type |-> "user_list", data |-> UserNames(users')]
             IN  /\ chatLog' = Append(chatLog, e)
                 /\ e.username = <<"System">>
                 /\ e.message = last'.username \o <<" joined the chat">>
                 /\ last'.username \in Range(userList.data)
                 /\ NewFrames(last'.id) =
                       << MessageFrame(e), JoinedFrame(chatLog', users'), userList >>
                 /\ \A c \in ConnIds \ {last'.id} :
                       (IsJoined(c) /\ readyState[c] = "OPEN")
                          => NewFrames(c) = << MessageFrame(e), userList >> ]_vars

\* The second participant has just joined: the first one was sent the event
\* and then the list of two names.
C20_Witness ==
    /\ last.op = "join"
    /\ Len(users) = 2
    /\ LET ob == outbox[last.id]
       IN  /\ Len(ob) = 3
           /\ ob[2].type = "joined"
    /\ \E c \in ConnIds \ {last.id} :
          /\ IsJoined(c)
          /\ Len(outbox[c]) >= 2
          /\ outbox[c][Len(outbox[c]) - 1] = MessageFrame(chatLog[Len(chatLog)])
          /\ outbox[c][Len(outbox[c])].data = UserNames(users)

\* The bytes the file of the running handleFileTransfer is to hold.
HandledBytes(req) == BufferFromBase64(req.data.fileData)

\* C21: the file is written first, with log and outboxes as they were; the
\* "file" event is appended only with the file in place, the file_received
\* frames are sent only after that, neither of the later statements touches
\* the stored files, no step ever takes a file away, and the file is there
\* at the end of the handler also when no file_received frame was sent.
C21_WriteThenNotify ==
    [][ /\ last'.op = "file write"
             => /\ last'.data.filename \in DOMAIN files'
                /\ files'[last'.data.filename] = HandledBytes(last')
                /\ UNCHANGED <<chatLog, outbox>>
        /\ (Len(chatLog') > Len(chatLog) /\ chatLog'[Len(chatLog')].type = "file")
             => /\ last.op = "file write"
                /\ last.data.filename \in DOMAIN files
                /\ files[last.data.filename] = HandledBytes(last)
                /\ files' = files
                /\ \A c \in ConnIds : FramesOfType(NewFrames(c), "file_received") = <<>>
        /\ (\E c \in ConnIds : FramesOfType(NewFrames(c), "file_received") # <<>>)
             => /\ last.op = "file publish"
                /\ chatLog[Len(chatLog)].type = "file"
                /\ files[last.data.filename] = HandledBytes(last)
                /\ UNCHANGED <<files, chatLog>>
        /\ last'.op = "file notify"
             => /\ last'.data.filename \in DOMAIN files'
                /\ files'[last'.data.filename] = HandledBytes(last')
        /\ \A f \in DOMAIN files : f \in DOMAIN files' ]_vars

\* A file transfer has run to its end while the only other participant had a
\* socket that was no longer open: nobody was sent a file_received frame, and
\* the file is stored.
C21_Witness ==
    /\ last.op = "file notify"
    /\ last.data.filename \in DOMAIN files
    /\ \E c \in ConnIds \ {last.id} : IsJoined(c) /\ readyState[c] = "CLOSING"
    /\ \A c \in ConnIds : FramesOfType(outbox[c], "file_received") = <<>>

\* C22: frames go only to sockets of the registry that are open; nothing but
\* the close event of a connection takes it out of the registry, and a
\* message or file request changes the registry not at all; a participant
\* whose socket is no longer open (it is closing, or had an error) is sent
\* nothing and keeps its entry and its place in the user list until its
\* close event is handled.
C22_FanOutLeavesRegistry ==
    [][ /\ \A c \in ConnIds :
              NewFrames(c) # <<>>
                 => /\ readyState[c] = "OPEN"
                    /\ MapHas(users, c) \/ MapHas(users', c)
        /\ \A c \in ConnIds :
              (MapHas(users, c) /\ ~MapHas(users', c))
                 => (last'.op = "close" /\ last'.id = c)
        /\ last'.op \in {"message", "file"} => users' = users
        /\ \A c \in ConnIds :
              ( /\ MapHas(users, c)
                /\ readyState[c] # "OPEN"
                /\ ~(last'.op = "close" /\ last'.id = c) )
                 => /\ MapHas(users', c)
                    /\ MapGet(users', c) = MapGet(users, c)
                    /\ MapGet(users', c).username \in Range(UserNames(users'))
                    /\ NewFrames(c) = <<>> ]_vars

\* A message has been published while a participant's socket had had an
\* error: that participant was not sent the message and is still in the
\* registry.
C22_Witness ==
    /\ last.op = "message"
    /\ IsJoined(last.id)
    /\ chatLog # <<>>
    /\ chatLog[Len(chatLog)].type = "message"
    /\ MessageFrame(chatLog[Len(chatLog)]) \in Range(outbox[last.id])
    /\ \E c \in ConnIds \ {last.id} :
          /\ IsJoined(c)
          /\ readyState[c] = "CLOSING"
          /\ MessageFrame(chatLog[Len(chatLog)]) \notin Range(outbox[c])
          /\ MapGet(users, c).username \in Range(UserNames(users))

\* The ChatMessages of the message frames among frames.
MessagesOf(frames) ==
    LET fs == FramesOfType(frames, "message")
    IN  [i \in 1..Len(fs) |-> fs[i].data]

\* C23: for every joined participant with an open socket, and for each
\* joined frame it was sent, the history of that frame followed by the
\* messages of the message frames sent after it is the log.
C23_NothingMissed ==
    \A c \in ConnIds :
       (IsJoined(c) /\ readyState[c] = "OPEN")
          => LET ks == {k \in 1..Len(outbox[c]) : outbox[c][k].type = "joined"}
             IN  /\ ks # {}
                 /\ \A k \in ks :
                       outbox[c][k].chatHistory
                          \o MessagesOf(SubSeq(outbox[c], k + 1, Len(outbox[c])))
                       = chatLog

\* A participant joined when the log had an event already, and an event was
\* published after that.
C23_Witness ==
    \E c \in ConnIds :
       /\ IsJoined(c)
       /\ readyState[c] = "OPEN"
       /\ \E k \in 1..Len(outbox[c]) :
             /\ outbox[c][k].type = "joined"
             /\ Len(outbox[c][k].chatHistory) >= 2
             /\ MessagesOf(SubSeq(outbox[c], k + 1, Len(outbox[c]))) # <<>>

\* C24: the joiner is in the registry when its "joined the chat" event is
\* fanned out, so it is sent the event as a message frame, once, and then
\* the joined frame whose history ends with the same event.
C24_OwnJoinTwice ==
    [][ last'.op = "join"
          => LET e == chatLog'[Len(chatLog')]
                 nf == NewFrames(last'.id)
             IN  /\ MapHas(users', last'.id)
                 /\ Len(nf) >= 2
                 /\ nf[1] = MessageFrame(e)
                 /\ Len(FramesOfType(nf, "message")) = 1
                 /\ nf[2].type = "joined"
                 /\ nf[2].chatHistory # <<>>
                 /\ nf[2].chatHistory[Len(nf[2].chatHistory)] = e
                 /\ \A i \in 1..(Len(nf[2].chatHistory) - 1) :
                       nf[2].chatHistory[i] # e ]_vars

\* The first join of the hub: the joiner was sent the event and then a
\* history that holds this event only.
C24_Witness ==
    /\ last.op = "join"
    /\ Len(chatLog) = 1
    /\ Len(outbox[last.id]) = 3
    /\ outbox[last.id][1] = MessageFrame(chatLog[1])
    /\ outbox[last.id][2].type = "joined"
    /\ outbox[last.id][2].chatHistory = chatLog

\* C25: the close event of a joined participant appends "<name> left the
\* chat", takes the participant out of the registry and leaves the others in
\* their order; every other open socket of the registry is sent the event
\* and then the user list of the registry without the leaver, and the leaver
\* is sent nothing.
C25_LeaveOrder ==
    [][ (last'.op = "close" /\ IsJoined(last'.id))
          => LET e == chatLog'[Len(chatLog')]
                 userList == [type |-> "user_list", data |-> UserNames(users')]
             IN  /\ chatLog' = Append(chatLog, e)
                 /\ e.username = <<"System">>
                 /\ e.message = MapGet(users, last'.id).username \o <<" left the chat">>
                 /\ users' = SelectSeq(users, LAMBDA u : u.id # last'.id)
                 /\ Len(userList.data) = Len(users) - 1
                 /\ NewFrames(last'.id) = <<>>
                 /\ \A c \in ConnIds \ {last'.id} :
                       (IsJoined(c) /\ readyState[c] = "OPEN")
                          => NewFrames(c) = << MessageFrame(e), userList >> ]_vars

\* One of two participants has left: the one who stays was sent the event
\* and then a list of one name, the one who left was sent neither.
C25_Witness ==
    /\ last.op = "close"
    /\ Len(users) = 1
    /\ chatLog # <<>>
    /\ MessageFrame(chatLog[Len(chatLog)]) \notin Range(outbox[last.id])
    /\ outbox[last.id] # <<>>
    /\ LET c == users[1].id
       IN  /\ readyState[c] = "OPEN"
           /\ Len(outbox[c]) >= 2
           /\ outbox[c][Len(outbox[c]) - 1] = MessageFrame(chatLog[Len(chatLog)])
           /\ outbox[c][Len(outbox[c])] = [type |-> "user_list", data |-> UserNames(users)]

\* C26: a file request of a joined participant appends exactly one event, of
\* type "file" and with the sender's name; the sender is sent the event and
\* nothing else, and every other open socket of the registry is sent the
\* event and then the file_received frame.
C26_FileEventThenNotice ==
    [][ (last'.op = "file" /\ IsJoined(last'.id))
          => LET e == chatLog'[Len(chatLog')]
                 user == MapGet(users, last'.id)
             IN  /\ chatLog' = Append(chatLog, e)
                 /\ e.type = "file"
                 /\ e.username = user.username
                 /\ NewFrames(last'.id) = << MessageFrame(e) >>
                 /\ \A c \in ConnIds \ {last'.id} :
                       (IsJoined(c) /\ readyState[c] = "OPEN")
                          => NewFrames(c) =
                                << MessageFrame(e), FileReceivedFrame(user, last'.data) >> ]_vars

\* A participant has sent a file while another one was in the chat: both
\* were sent the "file" event, the other one the file_received frame after
\* it.
C26_Witness ==
    /\ last.op = "file"
    /\ IsJoined(last.id)
    /\ chatLog # <<>>
    /\ chatLog[Len(chatLog)].type = "file"
    /\ outbox[last.id][Len(outbox[last.id])] = MessageFrame(chatLog[Len(chatLog)])
    /\ \E c \in ConnIds \ {last.id} :
          /\ Len(outbox[c]) >= 2
          /\ outbox[c][Len(outbox[c]) - 1] = MessageFrame(chatLog[Len(chatLog)])
          /\ outbox[c][Len(outbox[c])].type = "file_received"

\* C27: a request of an unknown type, a file request without data, and a
\* file request whose write fails change neither registry nor log nor files,
\* send nothing and leave every socket, the sender's included, as it was.
C27_FailedRequestIsDropped ==
    [][ last'.op \in {"unknown type", "file no data", "file write failed"}
          => /\ UNCHANGED hubState
             /\ readyState' = readyState
             /\ readyState'[last'.id] = "OPEN" ]_vars

\* The write of a joined participant's file has just failed while another
\* participant was in the chat.
C27_Witness ==
    /\ last.op = "file write failed"
    /\ IsJoined(last.id)
    /\ \E c \in ConnIds \ {last.id} : IsJoined(c) /\ readyState[c] = "OPEN"

\* No join request was handled on connection c.
NoJoinOn(c) == \A i \in 1..Len(joinReqs) : joinReqs[i].id # c

\* C28: when the page's socket is lost, the page makes a new one and sends
\* nothing on it by itself: what the page does on close, connect and open
\* leaves the hub as it was, and a socket of the page on which no join was
\* handled is not in the registry.  A message or a file the page sends on
\* such a socket appends no event, sends nothing to anybody and writes no
\* file.
C28_ReconnectIsUnjoined ==
    /\ [](\A c \in client.sockets : NoJoinOn(c) => ~IsJoined(c))
    /\ [][ /\ last'.op \in {"browser close", "browser connect", "browser open"}
                => UNCHANGED <<hubState, joinReqs>>
           /\ ( /\ last'.op \in {"message", "file"}
                /\ last'.id = client.ws
                /\ NoJoinOn(client.ws) )
                => UNCHANGED <<users, chatLog, outbox, files>> ]_vars

\* The page joined, lost its socket and opened a second one, and has just
\* sent a message on it: the log holds the join event only, while the entry
\* of the first socket is still in the registry with its socket open.
C28_Witness ==
    /\ last.op = "message"
    /\ last.id = client.ws
    /\ client.chatScreen
    /\ Cardinality(client.sockets) = 2
    /\ NoJoinOn(client.ws)
    /\ Len(chatLog) = 1
    /\ \E c \in client.sockets \ {client.ws} :
          /\ IsJoined(c)
          /\ readyState[c] = "OPEN"
          /\ FramesOfType(outbox[c], "message") = <<MessageFrame(chatLog[1])>>

====
